---- MODULE Spec2Model ----
(***************************************************************************)
(* The CSV normalisation pipeline and the filter view of src/Inicio.py     *)
(* (a Streamlit script that is run top to bottom for one upload).          *)
(*                                                                         *)
(* A cell is a record [k, n, d]: k is the kind of value, n/d its value.    *)
(*   "float"  a finite floating point value n/d                            *)
(*   "int"    an integer-typed value n                                     *)
(*   "inf"    the floating point value +infinity                           *)
(*   "nan"    the missing marker (NaN / an empty CSV cell)                 *)
(*   "str"    a text cell that is neither a number nor a timestamp         *)
(*   "ts"     a text cell holding the timestamp number n                   *)
(* A data frame is [columns, data, index, src]: the column labels, one     *)
(* sequence of cells per column, the index, and for every row the number   *)
(* of the file row it was read from (src is not a pandas field, it only    *)
(* names the rows).                                                        *)
(***************************************************************************)
EXTENDS Integers, Sequences, FiniteSets, TLC

VARIABLES uploaded_file, pos, df, pc, shown, variable, min_val, max_val,
          rango, filtrado

vars == <<uploaded_file, pos, df, pc, shown, variable, min_val, max_val,
          rango, filtrado>>

\* The largest number of data rows of an uploaded file.
MaxRows == 2

------------------------------------------------------------------------------
\* Values

F(n, d) == [k |-> "float", n |-> n, d |-> d]

I(n) == [k |-> "int", n |-> n, d |-> 1]

Ts(t) == [k |-> "ts", n |-> t, d |-> 1]

NaN == [k |-> "nan", n |-> 0, d |-> 1]

Inf == [k |-> "inf", n |-> 1, d |-> 1]

Str == [k |-> "str", n |-> 0, d |-> 1]

Abs(x) == IF x < 0 THEN -x ELSE x

RECURSIVE GCD(_, _)
GCD(a, b) == IF b = 0 THEN a ELSE GCD(b, a % b)

\* The float n/d in lowest terms
Frac(n, d) ==
  LET g == GCD(Abs(n), d) IN F(n \div g, d \div g)

isna(c) == c.k = "nan"

IsFinite(c) == c.k \in {"float", "int"}

\* a <= b on non-missing numbers; a comparison with NaN is false
Leq(a, b) ==
  /\ ~isna(a)
  /\ ~isna(b)
  /\ IF a.k = "inf" THEN b.k = "inf"
     ELSE IF b.k = "inf" THEN TRUE
     ELSE a.n * b.d <= b.n * a.d

\* float(x)
ToFloat(c) == IF c.k = "int" THEN F(c.n, 1) ELSE c

Plus(a, b) ==
  IF a.k = "inf" \/ b.k = "inf" THEN Inf
  ELSE Frac(a.n * b.d + b.n * a.d, a.d * b.d)

Minus(a, b) ==
  IF a.k = "inf" THEN Inf
  ELSE Frac(a.n * b.d - b.n * a.d, a.d * b.d)

\* s.dropna()
dropna(s) == SelectSeq(s, LAMBDA c : ~isna(c))

RECURSIVE SumOf(_)
SumOf(s) == IF s = <<>> THEN F(0, 1) ELSE Plus(ToFloat(Head(s)), SumOf(Tail(s)))

\* Series.mean() of a numeric column: NaN is skipped, no value gives NaN
mean(s) ==
  LET v == dropna(s)
      t == SumOf(v)
  IN  IF v = <<>> THEN NaN
      ELSE IF t.k = "inf" THEN Inf
      ELSE Frac(t.n, t.d * Len(v))

\* Series.mean() of an object column (one that holds text) raises TypeError
MeanRaises(s) == \E i \in 1..Len(s) : s[i].k \in {"str", "ts"}

RECURSIVE MinOf(_)
MinOf(s) ==
  IF Len(s) = 1 THEN s[1]
  ELSE LET m == MinOf(Tail(s)) IN IF Leq(s[1], m) THEN s[1] ELSE m

RECURSIVE MaxOf(_)
MaxOf(s) ==
  IF Len(s) = 1 THEN s[1]
  ELSE LET m == MaxOf(Tail(s)) IN IF Leq(m, s[1]) THEN s[1] ELSE m

------------------------------------------------------------------------------
\* The uploaded files

\* The source columns an uploaded file may hold, in file order
ColumnOrder == <<"Time", "temperature", "humidity", "humidity ESP32", "valve_state">>

\* The cells a source column may hold. Two input spaces are explored: in
\* "all" every kind of cell occurs in every column it can matter in, in files
\* of up to two rows; "few" has fewer cells per column, which leaves room for
\* files of up to MaxRows rows.
CellsOf(space, name) ==
  CASE name = "Time"           -> {Ts(1), Ts(2), Str}
    [] name = "temperature"    -> {Str, F(1, 1), F(2, 1)}
    [] name = "humidity"       -> IF space = "all" THEN {NaN, Str, F(1, 1), F(2, 1)}
                                  ELSE {Str, F(1, 1)}
    [] name = "humidity ESP32" -> {F(3, 1)}
    [] name = "valve_state"    -> IF space = "all" THEN {Str, Inf, F(1, 1), F(5, 2)}
                                  ELSE {Str, F(1, 1)}

\* The uploads that hold a byte that is not valid UTF-8 are those made of
\* these columns only
Latin1Columns == {"Time", "temperature"}

\* The cells of one source column of a file of n rows; <<>> when absent
ColumnsOf(space, name, present, n) ==
  IF name \in present THEN [1..n -> CellsOf(space, name)] ELSE {<<>>}

\* The file whose columns are those of ColumnOrder named in present
Pack(present, c, n, l) ==
  LET at == SelectSeq([j \in 1..Len(ColumnOrder) |-> j],
                      LAMBDA j : ColumnOrder[j] \in present)
  IN  [header |-> [j \in 1..Len(at) |-> ColumnOrder[at[j]]],
       cols   |-> [j \in 1..Len(at) |-> c[at[j]]],
       n      |-> n,
       latin1 |-> l]

\* The numbers of data rows of the files of an input space
RowsOf(space) == IF space = "all" THEN 0..2 ELSE 0..MaxRows

\* The upload is one of the files of the input space. header: the column
\* names of line 1; cols: the cells of the n data rows, column by column;
\* latin1: some byte of the file is not valid UTF-8. The file with no header
\* is the empty file.
Uploaded(space) ==
  \E present \in SUBSET {ColumnOrder[j] : j \in 1..Len(ColumnOrder)} :
  \E n \in (IF present = {} THEN {0} ELSE RowsOf(space)) :
  \E c1 \in ColumnsOf(space, ColumnOrder[1], present, n),
     c2 \in ColumnsOf(space, ColumnOrder[2], present, n),
     c3 \in ColumnsOf(space, ColumnOrder[3], present, n),
     c4 \in ColumnsOf(space, ColumnOrder[4], present, n),
     c5 \in ColumnsOf(space, ColumnOrder[5], present, n),
     l \in IF present # {} /\ present \subseteq Latin1Columns THEN BOOLEAN
           ELSE {FALSE} :
       uploaded_file = <<Pack(present, <<c1, c2, c3, c4, c5>>, n, l)>>

NumLines(f) == IF f.header = <<>> THEN 0 ELSE f.n + 1

------------------------------------------------------------------------------
\* Data frames

EmptyFrame == [columns |-> <<>>, data |-> <<>>, index |-> <<>>, src |-> <<>>]

NumRows(d) == Len(d.index)

\* col in df.columns
HasCol(d, col) == \E j \in 1..Len(d.columns) : d.columns[j] = col

Where(d, col) == {j \in 1..Len(d.columns) : d.columns[j] = col}

\* df[col] is a DataFrame, not a Series, when the label occurs more than once
IsFrame(d, col) == Cardinality(Where(d, col)) > 1

\* df[col] for a label that occurs once
Col(d, col) == d.data[CHOOSE j \in Where(d, col) : TRUE]

\* df[col] = s : replaces the column, or appends it as the last one
SetCol(d, col, s) ==
  IF HasCol(d, col)
  THEN [d EXCEPT !.data = [j \in 1..Len(d.data) |->
                             IF d.columns[j] = col THEN s ELSE d.data[j]]]
  ELSE [d EXCEPT !.columns = Append(d.columns, col), !.data = Append(d.data, s)]

\* A column holding the scalar v in every row
Broadcast(d, v) == [i \in 1..NumRows(d) |-> v]

\* The rows of d at the positions keep (an increasing sequence)
Take(d, keep) ==
  [columns |-> d.columns,
   data    |-> [j \in 1..Len(d.data) |-> [i \in 1..Len(keep) |-> d.data[j][keep[i]]]],
   index   |-> [i \in 1..Len(keep) |-> d.index[keep[i]]],
   src     |-> [i \in 1..Len(keep) |-> d.src[keep[i]]]]

\* The names pandas derives for a header line made of data cells
DataName(j) == <<"data.1", "data.2", "data.3", "data.4", "data.5">>[j]

\* pd.read_csv on the stream of f of which p lines are already consumed: the
\* first line left is taken as the header, the others as the rows.
ParseFrom(f, p) ==
  LET m == f.n - p IN
  [columns |-> IF p = 0 THEN f.header
               ELSE [j \in 1..Len(f.header) |-> DataName(j)],
   data    |-> [j \in 1..Len(f.header) |-> [i \in 1..m |-> f.cols[j][p + i]]],
   index   |-> [i \in 1..m |-> i - 1],
   src     |-> [i \in 1..m |-> p + i]]

\* pd.read_csv raises EmptyDataError when no line is left to read
NothingToParse(f, p) == p >= NumLines(f)

------------------------------------------------------------------------------
\* Column renaming

GRAFANA_COMPLEX_NAME == "{device=\"ESP32\", name=\"sensor_data\"}"

rename_map ==
  ("Time" :> "_time") @@ ("time" :> "_time") @@ ("timeStamp" :> "_time")
  @@ ("result_time" :> "_time")
  @@ ("humidity {device=\"ESP32\", name=\"sensor_data\"}" :> "humidity")
  @@ ("temperature {device=\"ESP32\", name=\"sensor_data\"}" :> "temperature")
  @@ ("valve_state {device=\"ESP32\", name=\"sensor_data\"}" :> "valve_state")
  @@ ("humidity ESP32" :> "humidity") @@ ("temperature ESP32" :> "temperature")
  @@ ("valve_state ESP32" :> "valve_state")
  @@ ("humidity" :> "humidity") @@ ("temperature" :> "temperature")
  @@ ("valve_state" :> "valve_state")

\* {k: v for k, v in rename_map.items() if k in df.columns}
columns_to_rename(d) ==
  [k \in {a \in DOMAIN rename_map : HasCol(d, a)} |-> rename_map[k]]

\* df.rename(columns=m): every label that is a key of m is replaced by its
\* value, in place; the columns themselves are neither merged nor dropped.
rename(d, m) ==
  [d EXCEPT !.columns = [j \in 1..Len(d.columns) |->
                           IF d.columns[j] \in DOMAIN m THEN m[d.columns[j]]
                           ELSE d.columns[j]]]

------------------------------------------------------------------------------
\* Time column

NaT == 0

\* pd.to_datetime(..., errors='coerce') would raise for a DataFrame only
ToDatetimeCoerce(d) == IsFrame(d, "_time")

\* pd.to_datetime raises for a DataFrame with duplicate labels and for any
\* text that is not a timestamp
ToDatetimeRaises(d) ==
  \/ IsFrame(d, "_time")
  \/ \E i \in 1..NumRows(d) : Col(d, "_time")[i].k = "str"

to_datetime(s) ==
  [i \in 1..Len(s) |->
     IF s[i].k = "ts" THEN s[i].n
     ELSE IF IsFinite(s[i]) THEN s[i].n \div s[i].d
     ELSE NaT]

\* df.set_index("_time").sort_index(kind="stable") would order the rows by time
set_index_sorted(d) ==
  LET j == CHOOSE x \in Where(d, "_time") : TRUE
      t == to_datetime(d.data[j])
      n == Len(t)
      order == CHOOSE p \in [1..n -> 1..n] :
                 /\ \A a, b \in 1..n : a # b => p[a] # p[b]
                 /\ \A a, b \in 1..n : a < b =>
                      \/ t[p[a]] < t[p[b]]
                      \/ t[p[a]] = t[p[b]] /\ p[a] < p[b]
      keep == SelectSeq([x \in 1..Len(d.columns) |-> x], LAMBDA x : x # j)
  IN  [columns |-> [x \in 1..Len(keep) |-> d.columns[keep[x]]],
       data    |-> [x \in 1..Len(keep) |-> [i \in 1..n |-> d.data[keep[x]][order[i]]]],
       index   |-> [i \in 1..n |-> t[order[i]]],
       src     |-> [i \in 1..n |-> d.src[order[i]]]]

\* df.set_index("_time") after df["_time"] = pd.to_datetime(df["_time"])
set_index(d) ==
  LET j == CHOOSE x \in Where(d, "_time") : TRUE
      keep == SelectSeq([x \in 1..Len(d.columns) |-> x], LAMBDA x : x # j)
  IN  [columns |-> [x \in 1..Len(keep) |-> d.columns[keep[x]]],
       data    |-> [x \in 1..Len(keep) |-> d.data[keep[x]]],
       index   |-> to_datetime(d.data[j]),
       src     |-> d.src]

------------------------------------------------------------------------------
\* Numeric coercion and backfill

\* pd.to_numeric(s, errors='coerce')
to_numeric(s) ==
  [i \in 1..Len(s) |-> IF s[i].k \in {"str", "ts"} THEN NaN ELSE s[i]]

\* s.fillna(0)
fillna0(s) == [i \in 1..Len(s) |-> IF isna(s[i]) THEN F(0, 1) ELSE s[i]]

\* int(x): the fraction is dropped (truncation towards zero)
Trunc(c) ==
  IF c.k = "int" THEN c
  ELSE IF c.n >= 0 THEN I(c.n \div c.d) ELSE I(-((-c.n) \div c.d))

\* s.astype(int, errors='ignore'): the cast raises for a non-finite value, and
\* with errors='ignore' the column is then returned as it was
astype_int(s) ==
  IF \E i \in 1..Len(s) : ~IsFinite(s[i]) THEN s
  ELSE [i \in 1..Len(s) |-> Trunc(s[i])]

\* One round of the loop over the value columns. The result is
\* [ok, df, warn]: ok is FALSE when the round raises.
Raised(d) == [ok |-> FALSE, df |-> d, warn |-> {}]

Fine(d, w) == [ok |-> TRUE, df |-> d, warn |-> w]

\* The temperature default taken from the humidity default when there is no
\* humidity column either
TemperatureDefaultDerived(d) ==
  IF HasCol(d, "humidity") /\ ~IsFrame(d, "humidity")
  THEN mean(Col(d, "humidity"))
  ELSE F(50, 1)

\* df["humidity"].mean() if "humidity" in df.columns else 25.0, where the mean
\* does not raise
TemperatureDefault(d) ==
  IF HasCol(d, "humidity") THEN mean(Col(d, "humidity")) ELSE F(25, 1)

CoerceOrFill(d, col) ==
  IF HasCol(d, col)
  THEN \* pd.to_numeric raises TypeError for a DataFrame
       IF IsFrame(d, col) THEN Raised(d)
       ELSE Fine(SetCol(d, col, to_numeric(Col(d, col))), {})
  ELSE IF col = "valve_state"
  THEN Fine(SetCol(d, col, Broadcast(d, I(0))), {"warn_valve_state"})
  ELSE IF col = "temperature"
  THEN \* humidity is not yet coerced when its mean is taken
       IF HasCol(d, "humidity")
          /\ (IsFrame(d, "humidity") \/ MeanRaises(Col(d, "humidity")))
       THEN Raised(d)
       ELSE LET e == SetCol(d, col, Broadcast(d, TemperatureDefault(d)))
            IN  \* df[col].iloc[0] raises IndexError on an empty column
                IF NumRows(d) = 0 THEN Raised(e)
                ELSE Fine(e, {"warn_temperature"})
  ELSE Fine(SetCol(d, col, Broadcast(d, F(50, 1))), {"warn_humidity"})

\* for col in ["temperature", "humidity", "valve_state"]: ...
RECURSIVE CoerceLoop(_, _)
CoerceLoop(d, todo) ==
  IF todo = <<>> THEN Fine(d, {})
  ELSE LET r == CoerceOrFill(d, Head(todo)) IN
       IF ~r.ok THEN r
       ELSE LET t == CoerceLoop(r.df, Tail(todo)) IN
            [ok |-> t.ok, df |-> t.df, warn |-> r.warn \cup t.warn]

\* df["valve_state"] = df["valve_state"].fillna(0).astype(int, errors='ignore')
FillValve(d) ==
  SetCol(d, "valve_state", astype_int(fillna0(Col(d, "valve_state"))))

------------------------------------------------------------------------------
\* Filter view

Variables == {"temperature", "humidity", "valve_state"}

\* df[variable].dropna()
valid_data(d, v) == dropna(Col(d, v))

epsilon == F(1, 10)

\* The bounds of the slider: <<min_val, max_val>>
SliderBounds(d, v) ==
  LET vd == valid_data(d, v) IN
  IF vd = <<>> THEN <<F(0, 1), F(1, 1)>>
  ELSE LET lo == ToFloat(MinOf(vd))
           hi == ToFloat(MaxOf(vd))
       IN  IF lo = hi
           THEN IF v = "valve_state" THEN <<F(-1, 10), F(11, 10)>>
                ELSE <<Minus(hi, epsilon), Plus(hi, epsilon)>>
           ELSE <<lo, hi>>

\* (df[variable] >= lo) & (df[variable] < hi) would drop the upper end
InRangeOpen(c, lo, hi) == Leq(lo, c) /\ Leq(c, hi) /\ ~Leq(hi, c)

\* (df[variable] >= lo) & (df[variable] <= hi)
InRange(c, lo, hi) == Leq(lo, c) /\ Leq(c, hi)

\* df[mask].dropna(subset=[variable])
Filter(d, v, lo, hi) ==
  LET rows == [i \in 1..NumRows(d) |-> i]
      mask == SelectSeq(rows, LAMBDA i : InRange(Col(d, v)[i], lo, hi))
      keep == SelectSeq(mask, LAMBDA i : ~isna(Col(d, v)[i]))
  IN  Take(d, keep)

\* The positions a user can drag a slider end to, besides its two bounds
SliderStops == {F(1, 1)}

------------------------------------------------------------------------------
\* The script, one run for one upload

\* uploaded_file is <<>> when nothing is uploaded (None), <<f>> otherwise
Init ==
  /\ \/ uploaded_file = <<>>
     \/ Uploaded("all")
     \/ Uploaded("few")
  /\ pos = 0
  /\ df = EmptyFrame
  /\ pc = "start"
  /\ shown = {}
  /\ variable = ""
  /\ min_val = NaN
  /\ max_val = NaN
  /\ rango = <<NaN, NaN>>
  /\ filtrado = EmptyFrame

\* except Exception as e: st.error(...); st.info(...)
Except ==
  /\ pc' = "error"
  /\ shown' = shown \cup {"error_procesar"}

\* uploaded_file is None: the instructions are shown
NoUpload ==
  /\ pc = "start"
  /\ uploaded_file = <<>>
  /\ pc' = "idle"
  /\ shown' = shown \cup {"instrucciones"}
  /\ UNCHANGED <<uploaded_file, pos, df, variable, min_val, max_val, rango, filtrado>>

\* df = pd.read_csv(uploaded_file, header=0), the whole stream decodes
ReadCsv ==
  /\ pc = "start"
  /\ uploaded_file # <<>>
  /\ LET f == uploaded_file[1] IN
     /\ ~f.latin1
     /\ ~NothingToParse(f, pos)
     /\ df' = ParseFrom(f, pos)
     /\ pos' = NumLines(f)
  /\ pc' = "loaded"
  /\ shown' = shown \cup {"cargado"}
  /\ UNCHANGED <<uploaded_file, variable, min_val, max_val, rango, filtrado>>

\* The first pd.read_csv raises: the file is empty, or a byte cannot be
\* decoded. In the second case the reader has consumed the stream up to the
\* end of one of its read buffers, which lies at or after the offending byte
\* and after the header line; the stream is left at that position.
ReadCsvRaises ==
  /\ pc = "start"
  /\ uploaded_file # <<>>
  /\ LET f == uploaded_file[1] IN
     \/ /\ NothingToParse(f, pos)
        /\ pos' = pos
     \/ /\ f.latin1
        /\ pos' \in 1..NumLines(f)
  /\ pc' = "fallback"
  /\ UNCHANGED <<uploaded_file, df, shown, variable, min_val, max_val, rango, filtrado>>

\* except: df = pd.read_csv(uploaded_file, encoding="latin-1", header=0)
\* reads the same stream object from where the first attempt left it
ReadCsvLatin1 ==
  /\ pc = "fallback"
  /\ LET f == uploaded_file[1] IN
     /\ ~NothingToParse(f, pos)
     /\ df' = ParseFrom(f, pos)
     /\ pos' = NumLines(f)
  /\ pc' = "loaded"
  /\ shown' = shown \cup {"cargado"}
  /\ UNCHANGED <<uploaded_file, variable, min_val, max_val, rango, filtrado>>

ReadCsvLatin1Raises ==
  /\ pc = "fallback"
  /\ NothingToParse(uploaded_file[1], pos)
  /\ Except
  /\ UNCHANGED <<uploaded_file, pos, df, variable, min_val, max_val, rango, filtrado>>

\* if columns_to_rename: df = df.rename(columns=columns_to_rename)
Rename ==
  /\ pc = "loaded"
  /\ LET m == columns_to_rename(df) IN
     IF DOMAIN m # {}
     THEN /\ df' = rename(df, m)
          /\ shown' = shown \cup {"renombradas"}
     ELSE UNCHANGED <<df, shown>>
  /\ pc' = "renamed"
  /\ UNCHANGED <<uploaded_file, pos, variable, min_val, max_val, rango, filtrado>>

\* if "_time" not in df.columns: st.error(...); st.stop()
NoTimeColumn ==
  /\ pc = "renamed"
  /\ ~HasCol(df, "_time")
  /\ pc' = "stopped"
  /\ shown' = shown \cup {"error_tiempo"}
  /\ UNCHANGED <<uploaded_file, pos, df, variable, min_val, max_val, rango, filtrado>>

\* df["_time"] = pd.to_datetime(df["_time"]); df = df.set_index("_time")
ParseTime ==
  /\ pc = "renamed"
  /\ HasCol(df, "_time")
  /\ ~ToDatetimeRaises(df)
  /\ df' = set_index(df)
  /\ pc' = "indexed"
  /\ UNCHANGED <<uploaded_file, pos, shown, variable, min_val, max_val, rango, filtrado>>

ParseTimeRaises ==
  /\ pc = "renamed"
  /\ HasCol(df, "_time")
  /\ ToDatetimeRaises(df)
  /\ Except
  /\ UNCHANGED <<uploaded_file, pos, df, variable, min_val, max_val, rango, filtrado>>

ValueColumns == <<"temperature", "humidity", "valve_state">>

\* The coercion/backfill loop, the fill of valve_state and the column list
Normalize ==
  /\ pc = "indexed"
  /\ LET r == CoerceLoop(df, ValueColumns) IN
     /\ r.ok
     /\ df' = FillValve(r.df)
     /\ shown' = shown \cup r.warn \cup {"columnas"}
  /\ pc' = "ready"
  /\ UNCHANGED <<uploaded_file, pos, variable, min_val, max_val, rango, filtrado>>

\* A round of the loop raises; df keeps what the rounds before it assigned
NormalizeRaises ==
  /\ pc = "indexed"
  /\ LET r == CoerceLoop(df, ValueColumns) IN
     /\ ~r.ok
     /\ df' = r.df
  /\ Except
  /\ UNCHANGED <<uploaded_file, pos, variable, min_val, max_val, rango, filtrado>>

\* a > b, false for NaN
Gt(a, b) == Leq(b, a) /\ ~Leq(a, b)

\* Tab 1: the metrics and the two charts
Tab1 ==
  /\ pc = "ready"
  /\ LET temp_avg == mean(Col(df, "temperature"))
         hum_avg  == mean(Col(df, "humidity"))
     IN  shown' = shown \cup {"metricas", "graficas"}
                   \cup (IF Gt(temp_avg, F(30, 1)) THEN {"temp_alta"} ELSE {"temp_normal"})
                   \cup (IF Gt(F(40, 1), hum_avg) THEN {"humedad_baja"} ELSE {"humedad_normal"})
  /\ pc' = "tab2"
  /\ UNCHANGED <<uploaded_file, pos, df, variable, min_val, max_val, rango, filtrado>>

\* Tab 2: the descriptive statistics table
Tab2 ==
  /\ pc = "tab2"
  /\ shown' = shown \cup {"estadisticas"}
  /\ pc' = "tab3"
  /\ UNCHANGED <<uploaded_file, pos, df, variable, min_val, max_val, rango, filtrado>>

\* Tab 3: the user picks the variable v and the slider range [lo, hi] (the
\* default is the whole slider); the filtered table is shown and offered for
\* download. Tab 4 and the footer, which only write fixed text, follow.
Tab3(v) ==
  /\ pc = "tab3"
  /\ LET b == SliderBounds(df, v)
         stops == {s \in SliderStops : InRange(s, b[1], b[2])}
     IN  \E lo \in {b[1]} \cup stops, hi \in {b[2]} \cup stops :
           /\ Leq(lo, hi)
           /\ min_val' = b[1]
           /\ max_val' = b[2]
           /\ rango' = <<lo, hi>>
           /\ filtrado' = Filter(df, v, lo, hi)
  /\ variable' = v
  /\ shown' = shown \cup {"filtrado", "descarga", "informacion"}
               \cup (IF valid_data(df, v) = <<>> THEN {"sin_datos"} ELSE {})
  /\ pc' = "done"
  /\ UNCHANGED <<uploaded_file, pos, df>>

Next ==
  \/ NoUpload
  \/ ReadCsv
  \/ ReadCsvRaises
  \/ ReadCsvLatin1
  \/ ReadCsvLatin1Raises
  \/ Rename
  \/ NoTimeColumn
  \/ ParseTime
  \/ ParseTimeRaises
  \/ Normalize
  \/ NormalizeRaises
  \/ Tab1
  \/ Tab2
  \/ \E v \in Variables : Tab3(v)

Spec == Init /\ [][Next]_vars

------------------------------------------------------------------------------
\* What the claims speak of

\* The states in which the table is handed to the tabs or a tab has run
Rendering == {"ready", "tab2", "tab3", "done"}

\* What the tabs write
RenderTags ==
  {"metricas", "graficas", "temp_alta", "temp_normal", "humedad_baja",
   "humedad_normal", "estadisticas", "filtrado", "descarga", "sin_datos",
   "informacion"}

TheFile == uploaded_file[1]

\* The columns of the uploaded file that the alias table maps to canon
Sources(canon) ==
  {j \in 1..Len(TheFile.header) :
     /\ TheFile.header[j] \in DOMAIN rename_map
     /\ rename_map[TheFile.header[j]] = canon}

Source(canon) == TheFile.cols[CHOOSE j \in Sources(canon) : TRUE]

Absent(canon) == Sources(canon) = {}

Present(canon) == Cardinality(Sources(canon)) = 1

\* The upload decodes, one column resolves to the time axis and all of its
\* values parse: the upload passes the time-column step
PassesTimeStep ==
  /\ uploaded_file # <<>>
  /\ ~TheFile.latin1
  /\ Present("_time")
  /\ \A i \in 1..TheFile.n : Source("_time")[i].k # "str"

\* No two source columns resolve to the same canonical name
NoCollision ==
  \A c \in {"_time", "temperature", "humidity", "valve_state"} :
    Cardinality(Sources(c)) <= 1

AllOf(col, v) == \A i \in 1..Len(col) : col[i] = v

------------------------------------------------------------------------------
\* C1: whenever an upload that passed the time-column step is handed to the
\* tabs, the table has the time index and the three value columns
\* temperature, humidity and valve_state, one cell per row in each, and every
\* valve_state cell is integer-typed (hence not missing).
C1_TableComplete ==
  (uploaded_file # <<>> /\ pc \in Rendering) =>
     /\ PassesTimeStep
     /\ NumRows(df) = TheFile.n
     /\ \A v \in Variables :
          /\ Cardinality(Where(df, v)) = 1
          /\ Len(Col(df, v)) = TheFile.n
     /\ \A i \in 1..NumRows(df) : Col(df, "valve_state")[i].k = "int"

C3_NoRenderAfterFatal ==
  (/\ uploaded_file # <<>>
   /\ \/ Absent("_time")
      \/ \E j \in Sources("_time") : \E i \in 1..TheFile.n :
           TheFile.cols[j][i].k = "str")
  => /\ pc \notin Rendering
     /\ pc \notin {"indexed", "idle"}
     /\ shown \cap RenderTags = {}
     /\ filtrado = EmptyFrame
     /\ (pc \notin {"stopped", "error"} => ENABLED Next)

\* A run that ended in the error handler because a timestamp did not parse
C3_Witness ==
  /\ pc = "error"
  /\ uploaded_file # <<>>
  /\ ~TheFile.latin1
  /\ Present("_time")
  /\ \E i \in 1..TheFile.n : Source("_time")[i].k = "str"
  /\ \E i \in 1..TheFile.n : Source("_time")[i].k = "ts"
  /\ "error_procesar" \in shown

\* C4: when no source column resolves to temperature, every cell of the
\* temperature column handed to the tabs is the mean of the coerced,
\* non-missing humidity values if a humidity column is present with at least
\* one such value, and 25.0 otherwise; the column has one cell per file row.
C4_TemperatureBackfill ==
  (uploaded_file # <<>> /\ pc \in Rendering /\ Absent("temperature")) =>
     LET hum == IF Present("humidity") THEN dropna(to_numeric(Source("humidity")))
                ELSE <<>>
     IN  /\ Len(Col(df, "temperature")) = TheFile.n
         /\ AllOf(Col(df, "temperature"), IF hum # <<>> THEN mean(hum) ELSE F(25, 1))

\* C5 as claimed: when neither temperature nor humidity is in the file,
\* humidity is 50.0 in every row and temperature is the mean of that column.
C5_TemperatureFromHumidity ==
  (uploaded_file # <<>> /\ pc \in Rendering
   /\ Absent("temperature") /\ Absent("humidity")) =>
     /\ AllOf(Col(df, "humidity"), F(50, 1))
     /\ AllOf(Col(df, "temperature"), mean(Col(df, "humidity")))

\* C5 as amended: when neither temperature nor humidity is in the file, the
\* two columns are filled independently, humidity with 50.0 and temperature
\* with 25.0 in every row of the file; this needs a data row (with none the
\* run ends in the error handler and nothing is rendered).
C5_IndependentDefaults ==
  (uploaded_file # <<>> /\ PassesTimeStep
   /\ Absent("temperature") /\ Absent("humidity")) =>
     /\ pc \in Rendering =>
          /\ TheFile.n > 0
          /\ Len(Col(df, "humidity")) = TheFile.n
          /\ Len(Col(df, "temperature")) = TheFile.n
          /\ AllOf(Col(df, "humidity"), F(50, 1))
          /\ AllOf(Col(df, "temperature"), F(25, 1))
     /\ TheFile.n = 0 => pc \notin Rendering

\* Both columns were backfilled in a table of two rows
C5_Witness ==
  /\ pc = "ready"
  /\ uploaded_file # <<>>
  /\ Absent("temperature")
  /\ Absent("humidity")
  /\ NumRows(df) = 2
  /\ {"warn_temperature", "warn_humidity"} \subseteq shown

\* C6: an upload that passes the time-column step and holds a cell that is
\* not a number in one of its value columns (each resolved by at most one
\* source column) never ends in the error handler.
C6_NonNumericNeverAborts ==
  (/\ uploaded_file # <<>>
   /\ PassesTimeStep
   /\ NoCollision
   /\ \E c \in Variables : \E j \in Sources(c) : \E i \in 1..TheFile.n :
        TheFile.cols[j][i].k = "str")
  => pc # "error"

\* The row positions of d whose value of v is not missing and within [lo, hi]
Selected(d, v, lo, hi) ==
  {i \in 1..NumRows(d) :
     LET c == Col(d, v)[i] IN
     /\ c.k # "nan"
     /\ IF c.k = "inf" THEN hi.k = "inf"
        ELSE /\ lo.k # "inf" /\ lo.n * c.d <= c.n * lo.d
             /\ hi.k = "inf" \/ c.n * hi.d <= hi.n * c.d}

\* C7: the filtered table holds exactly the rows of the table whose value of
\* the selected variable is not missing and lies in [lo, hi], each once,
\* unmodified, in the order of the table, under the same columns.
C7_FilterExact ==
  (pc = "done") =>
     /\ filtrado.columns = df.columns
     /\ \A k \in 1..(NumRows(filtrado) - 1) : filtrado.src[k] < filtrado.src[k + 1]
     /\ {filtrado.src[k] : k \in 1..NumRows(filtrado)}
          = {df.src[i] : i \in Selected(df, variable, rango[1], rango[2])}
     /\ \A k \in 1..NumRows(filtrado) : \E i \in 1..NumRows(df) :
          /\ df.src[i] = filtrado.src[k]
          /\ df.index[i] = filtrado.index[k]
          /\ \A j \in 1..Len(df.columns) : filtrado.data[j][k] = df.data[j][i]

\* A filter that keeps the second row of a table and drops the first, whose
\* value is not missing
C7_Witness ==
  /\ pc = "done"
  /\ NumRows(df) = 2
  /\ NumRows(filtrado) = 1
  /\ filtrado.src[1] = 2
  /\ ~isna(Col(df, variable)[1])
  /\ Col(df, variable)[2] = rango[2]

\* C8: the default range of the slider, [min_val, max_val], contains every
\* finite value of the selected variable, so that the default filter drops
\* no row that holds one.
C8_DefaultRangeCoversAll ==
  (pc = "done") =>
     \A i \in 1..NumRows(df) :
        LET c == Col(df, variable)[i] IN
        IsFinite(c) => InRange(c, min_val, max_val)

\* C9: when humidity and humidity ESP32 are both in the file, the renamed
\* table holds exactly one column labelled humidity, and its cells are those
\* of the later of the two source columns.
C9_LastAliasWins ==
  (/\ pc = "renamed"
   /\ ~TheFile.latin1
   /\ Cardinality(Sources("humidity")) = 2)
  => /\ Cardinality(Where(df, "humidity")) = 1
     /\ LET last == CHOOSE j \in Sources("humidity") :
                      \A x \in Sources("humidity") : x <= j
        IN  Col(df, "humidity") = TheFile.cols[last]

\* C10: when the first read fails on an undecodable byte, the Latin-1 read
\* parses the whole upload: it does not raise, and the frame it returns has
\* the header and every row of the file.
C10_FallbackReadsWholeFile ==
  (uploaded_file # <<>> /\ TheFile.latin1) =>
     /\ pc # "error"
     /\ pc = "loaded" => df = ParseFrom(TheFile, 0)

====
